---- MODULE Spec2Model ----
(***************************************************************************)
(* Model of senza/manaus/cloudformation.py:                                *)
(*   CloudFormationStack.from_boto_dict, .get_by_stack_name, .resources    *)
(*   CloudFormation.get_stacks                                             *)
(* Three specifications share the module:                                  *)
(*   SpecParse  - from_boto_dict / get_by_stack_name on bounded responses  *)
(*   SpecRes    - the resources generator                                  *)
(*   SpecStacks - the get_stacks generator against a changing provider     *)
(***************************************************************************)
EXTENDS Integers, Sequences, FiniteSets, TLC

VARIABLES
  \* from_boto_dict / get_by_stack_name
  p_response,   \* the 'Stacks' list of a describe_stacks response
  p_region,     \* the region argument
  p_stage,      \* "input", "parsed" (from_boto_dict ran), "fetched" (get_by_stack_name ran)
  p_arg,        \* index of the entry handed to from_boto_dict, 0 if none
  p_result,     \* what the call returned or raised
  \* CloudFormationStack.resources
  r_resources,       \* 'StackResourceSummaries' of list_stack_resources
  r_dns,             \* what Route53.get_records produces for each name
  r_requested,       \* the type filter the caller asks for
  r_generator_stop,  \* whether the interpreter applies PEP 479 to generators
  r_resource_types,  \* the value bound to the resource_types parameter
  r_pc,              \* "init", "created", "suspended", "done", "raised"
  r_error,           \* the exception that reached the caller, None if none
  r_idx,             \* index of the resource the for loop last took
  r_list_calls,      \* number of list_stack_resources calls issued
  r_lookups,         \* names handed to Route53.get_records, in call order
  r_yielded,         \* what the caller has been handed, in order
  \* CloudFormation.get_stacks and the provider it talks to
  s_pages,       \* provider: the stacks (by number) on each page of the listing
  s_status,      \* provider: the current status of each stack
  s_last_cursor, \* provider: how the last page reports "no more pages"
  s_all,         \* the all argument
  s_pc,          \* "created", "at_list", "at_for", "suspended", "done", "raised"
  s_error,       \* the exception that reached the caller, None if none
  s_kwargs,      \* the kwargs dict
  s_results,     \* the response of the last list_stacks call
  s_idx,         \* index of the summary the for loop last took
  s_pulls,       \* number of next() calls made on the live generator
  s_extra,       \* 1 once next() was called after it finished, else 0
  s_calls,       \* provider calls issued, in order
  s_yielded      \* records handed to the caller, in order

pvars == <<p_response, p_region, p_stage, p_arg, p_result>>
rvars == <<r_resources, r_dns, r_requested, r_generator_stop, r_resource_types,
           r_pc, r_error, r_idx, r_list_calls, r_lookups, r_yielded>>
svars == <<s_pages, s_status, s_last_cursor, s_all, s_pc, s_error, s_kwargs,
           s_results, s_idx, s_pulls, s_extra, s_calls, s_yielded>>
vars == <<pvars, rvars, svars>>

\* ------------------------------------------------------------------ bounds
MaxMissing == 1     \* keys that may be absent from a raw describe entry
MaxParams == 2      \* entries in a raw 'Parameters' list
MaxResources == 3   \* resources of the stack that is enumerated
MaxRecords == 2     \* DNS records one lookup produces
MaxStacks == 2      \* stacks the provider knows
MaxPages == 3       \* pages of the provider's listing

\* ------------------------------------------------------- python primitives
\* Python's None, as a value that can be compared with any string field.
None == "None"

\* d.get(k): the value when the key is present, None otherwise.
DictGet(d, k) == IF k \in DOMAIN d THEN d[k] ELSE None

\* The set of elements of a list (for the in operator).
Range(s) == {s[i] : i \in 1..Len(s)}

\* Index of key k in a list of <<key, value>> pairs, 0 when absent.
IndexOfKey(pairs, k) ==
  IF \E i \in 1..Len(pairs) : pairs[i][1] = k
  THEN CHOOSE i \in 1..Len(pairs) : pairs[i][1] = k
  ELSE 0

\* OrderedDict([...]): pairs are inserted left to right; a repeated key keeps
\* its first position and takes the later value.
RECURSIVE OrderedDict(_)
OrderedDict(pairs) ==
  IF pairs = <<>> THEN <<>>
  ELSE LET init == OrderedDict(SubSeq(pairs, 1, Len(pairs) - 1))
           last == pairs[Len(pairs)]
           at == IndexOfKey(init, last[1])
       IN IF at = 0 THEN Append(init, last)
          ELSE [init EXCEPT ![at] = last]

\* ---------------------------------------------------- from_boto_dict (60-85)
\* The keys of the describe_stacks entry that the module reads.
ScalarKeys ==
  {"StackId", "StackName", "Description", "CreationTime", "LastUpdatedTime",
   "StackStatus", "StackStatusReason", "DisableRollback", "NotificationARNs",
   "TimeoutInMinutes", "Capabilities", "Outputs"}

AllKeys == ScalarKeys \cup {"Parameters", "Tags"}

\* not p.get('UsePreviousValue') is false exactly for a present, true flag.
UsePreviousValue(p) ==
  "UsePreviousValue" \in DOMAIN p /\ p["UsePreviousValue"]

\* for p in stack.get('Parameters', []) if not p.get('UsePreviousValue')
RECURSIVE ParameterPairs(_)
ParameterPairs(ps) ==
  IF ps = <<>> THEN <<>>
  ELSE LET rest == ParameterPairs(Tail(ps))
       IN IF UsePreviousValue(Head(ps)) THEN rest
          ELSE <<(<<Head(ps)["ParameterKey"], Head(ps)["ParameterValue"]>>)>> \o rest

\* [(t['Key'], t['Value']) for t in stack['Tags']]
TagPairs(ts) == [i \in 1..Len(ts) |-> <<ts[i]["Key"], ts[i]["Value"]>>]

\* The keys read with stack[...]: a missing one raises KeyError.
\* Mutant: StackName is read with .get(), as the optional keys are.
SubscriptedKeysWithoutStackName ==
  {"StackId", "CreationTime", "StackStatus",
   "DisableRollback", "NotificationARNs", "Tags"}

SubscriptedKeys ==
  {"StackId", "StackName", "CreationTime", "StackStatus",
   "DisableRollback", "NotificationARNs", "Tags"}

\* The record built by cls(...): __init__ stores every argument unchanged.
StackFields(stack, region, params) ==
  [stack_id |-> DictGet(stack, "StackId"),
   name |-> DictGet(stack, "StackName"),
   description |-> DictGet(stack, "Description"),
   parameters |-> OrderedDict(params),
   creation_time |-> DictGet(stack, "CreationTime"),
   last_updated_time |-> DictGet(stack, "LastUpdatedTime"),
   status |-> DictGet(stack, "StackStatus"),
   stack_status_reason |-> DictGet(stack, "StackStatusReason"),
   disable_rollback |-> DictGet(stack, "DisableRollback"),
   notification_arns |-> DictGet(stack, "NotificationARNs"),
   timeout_in_minutes |-> DictGet(stack, "TimeoutInMinutes"),
   capabilities |-> DictGet(stack, "Capabilities"),
   outputs |-> DictGet(stack, "Outputs"),
   tags |-> OrderedDict(TagPairs(DictGet(stack, "Tags"))),
   region |-> region]

Raised(e) == [ok |-> FALSE, error |-> e]
Returned(v) == [ok |-> TRUE, value |-> v]

\* Mutant: flagged parameters are kept.
from_boto_dict_KeepFlagged(stack, region) ==
  IF ~(SubscriptedKeys \subseteq DOMAIN stack) THEN Raised("KeyError")
  ELSE LET ps == IF "Parameters" \in DOMAIN stack THEN stack["Parameters"] ELSE <<>>
       IN Returned(StackFields(stack, region,
            [i \in 1..Len(ps) |-> <<ps[i]["ParameterKey"], ps[i]["ParameterValue"]>>]))

from_boto_dict(stack, region) ==
  IF ~(SubscriptedKeys \subseteq DOMAIN stack) THEN Raised("KeyError")
  ELSE LET ps == IF "Parameters" \in DOMAIN stack THEN stack["Parameters"] ELSE <<>>
       IN Returned(StackFields(stack, region, ParameterPairs(ps)))

\* ----------------------------------------------- get_by_stack_name (87-100)
\* Mutant: the last match is taken instead of the first.
get_by_stack_name_Last(stacks, region) ==
  IF stacks = <<>> THEN Raised("IndexError")
  ELSE from_boto_dict(stacks[Len(stacks)], region)

\* Mutant: an empty match collection is answered with no record, no failure.
get_by_stack_name_Swallow(stacks, region) ==
  IF stacks = <<>> THEN Returned(None)
  ELSE from_boto_dict(stacks[1], region)

\* stacks is the 'Stacks' list of the describe_stacks response.
get_by_stack_name(stacks, region) ==
  IF stacks = <<>> THEN Raised("IndexError")
  ELSE from_boto_dict(stacks[1], region)

\* ------------------------------------------------ inputs of the parse runs
SampleValue ==
  [k \in ScalarKeys |->
     CASE k = "StackId" -> "arn:stack/one"
       [] k = "StackName" -> "one"
       [] k = "Description" -> "a stack"
       [] k = "CreationTime" -> "2016-01-01"
       [] k = "LastUpdatedTime" -> "2016-02-02"
       [] k = "StackStatus" -> "CREATE_COMPLETE"
       [] k = "StackStatusReason" -> "reason"
       [] k = "DisableRollback" -> "False"
       [] k = "NotificationARNs" -> "[arn:sns]"
       [] k = "TimeoutInMinutes" -> "30"
       [] k = "Capabilities" -> "[CAPABILITY_IAM]"
       [] k = "Outputs" -> "[out]"]

RawStack(present, ps, ts) ==
  [k \in present |->
     IF k = "Parameters" THEN ps ELSE IF k = "Tags" THEN ts ELSE SampleValue[k]]

ParamKeys == {"k1", "k2"}

\* A parameter entry without the flag, with the flag false, with the flag true.
ParamEntries ==
  {[ParameterKey |-> k, ParameterValue |-> "x"] : k \in ParamKeys}
  \cup {[ParameterKey |-> k, ParameterValue |-> "y", UsePreviousValue |-> FALSE] :
          k \in ParamKeys}
  \cup {[ParameterKey |-> k, ParameterValue |-> "z", UsePreviousValue |-> TRUE] :
          k \in ParamKeys}

ParamLists == UNION {[1..n -> ParamEntries] : n \in 0..MaxParams}

TagLists ==
  {<<[Key |-> "t1", Value |-> "a"], [Key |-> "t2", Value |-> "b"]>>,
   <<[Key |-> "t2", Value |-> "b"], [Key |-> "t1", Value |-> "c"]>>}

\* The key sets a describe entry may lack.
MissingKeys == {m \in SUBSET AllKeys : Cardinality(m) <= MaxMissing}

\* A second, complete match with another identity.
SecondStack ==
  [RawStack(AllKeys, <<>>, <<>>) EXCEPT !["StackId"] = "arn:stack/two",
                                        !["StackName"] = "two"]

\* The 'Stacks' list of a response: no match, the entry alone, the entry
\* followed or preceded by a second match.
Response(shape, r) ==
  CASE shape = 0 -> <<>>
    [] shape = 1 -> <<r>>
    [] shape = 2 -> <<r, SecondStack>>
    [] shape = 3 -> <<SecondStack, r>>

Pending == Raised(None)

IdleParse ==
  /\ p_response = <<>>
  /\ p_region = None
  /\ p_stage = "idle"
  /\ p_arg = 0
  /\ p_result = Pending

InitParse ==
  /\ \E missing \in MissingKeys, ps \in ParamLists, ts \in TagLists, shape \in 0..3 :
       p_response = Response(shape, RawStack(AllKeys \ missing, ps, ts))
  /\ p_region \in {None, "eu-west-1"}
  /\ p_stage = "input"
  /\ p_arg = 0
  /\ p_result = Pending

\* CloudFormationStack.from_boto_dict(entry, region) on one entry.
CallFromBotoDict ==
  /\ p_stage = "input"
  /\ \E i \in 1..Len(p_response) :
       /\ p_arg' = i
       /\ p_result' = from_boto_dict(p_response[i], p_region)
  /\ p_stage' = "parsed"
  /\ UNCHANGED <<p_response, p_region>>
  /\ UNCHANGED <<rvars, svars>>

\* CloudFormationStack.get_by_stack_name(name, region), the provider
\* answering with p_response.
CallGetByStackName ==
  /\ p_stage = "input"
  /\ p_result' = get_by_stack_name(p_response, p_region)
  /\ p_stage' = "fetched"
  /\ UNCHANGED <<p_response, p_region, p_arg>>
  /\ UNCHANGED <<rvars, svars>>

NextParse == CallFromBotoDict \/ CallGetByStackName


\* ------------------------------------------------------ resources (102-117)
route53_record_set == "AWS::Route53::RecordSet"
ec2_instance == "AWS::EC2::Instance"

\* A type filter: not given (None) or a list of type strings.
NoFilter == [given |-> FALSE, types |-> {}]
Filter(ts) == [given |-> TRUE, types |-> ts]

\* resource_types is not None and resource_type not in resource_types
Skipped(resource_types, resource_type) ==
  resource_types.given /\ resource_type \notin resource_types.types

\* next(records) on a lookup that produced at least one record.
FirstRecord(records) == records[1]

\* resource_type == ResourceType.route53_record_set
IsRecordSet(resource_type) == resource_type = route53_record_set

\* The generator body from the resource after index i up to its next yield,
\* its end, or the exception that leaves it.  lookups is the list of names
\* handed to Route53.get_records so far.
RECURSIVE RunResources(_, _, _, _, _, _)
RunResources(resources, dns, resource_types, generator_stop, i, lookups) ==
  IF i >= Len(resources)
  THEN [pc |-> "done", error |-> None, idx |-> i, lookups |-> lookups, out |-> <<>>]
  ELSE LET resource == resources[i + 1]
           resource_type == resource["ResourceType"]
           name == resource["PhysicalResourceId"]
       IN IF Skipped(resource_types, resource_type)
          THEN RunResources(resources, dns, resource_types, generator_stop, i + 1, lookups)
          ELSE IF IsRecordSet(resource_type)
          THEN IF dns[name] = <<>>
               \* next(records) raises StopIteration inside the generator:
               \* with PEP 479 it becomes RuntimeError, without it the
               \* generator ends as if exhausted.
               THEN IF generator_stop
                    THEN [pc |-> "raised", error |-> "RuntimeError", idx |-> i + 1,
                          lookups |-> Append(lookups, name), out |-> <<>>]
                    ELSE [pc |-> "done", error |-> None, idx |-> i + 1,
                          lookups |-> Append(lookups, name), out |-> <<>>]
               ELSE [pc |-> "suspended", error |-> None, idx |-> i + 1,
                     lookups |-> Append(lookups, name),
                     out |-> <<FirstRecord(dns[name])>>]
          ELSE RunResources(resources, dns, resource_types, generator_stop, i + 1, lookups)

ResourceTypes == {route53_record_set, ec2_instance}

\* Resources carry their position as physical identifier.
ResourceLists ==
  UNION {{[i \in 1..n |-> [ResourceType |-> ts[i], PhysicalResourceId |-> i]] :
            ts \in [1..n -> ResourceTypes]} : n \in 0..MaxResources}

DnsRecord(name, k) == [name |-> name, nth |-> k]
DnsAnswers(name) == {[k \in 1..n |-> DnsRecord(name, k)] : n \in 0..MaxRecords}

RequestedFilters ==
  {NoFilter, Filter({ec2_instance}), Filter({route53_record_set})}

IdleRes ==
  /\ r_resources = <<>>
  /\ r_dns = <<>>
  /\ r_requested = NoFilter
  /\ r_generator_stop = FALSE
  /\ r_resource_types = NoFilter
  /\ r_pc = "idle"
  /\ r_error = None
  /\ r_idx = 0
  /\ r_list_calls = 0
  /\ r_lookups = <<>>
  /\ r_yielded = <<>>

InitRes ==
  /\ r_resources \in ResourceLists
  /\ r_dns \in {d \in [1..MaxResources -> UNION {DnsAnswers(n) : n \in 1..MaxResources}] :
                  \A n \in 1..MaxResources : d[n] \in DnsAnswers(n)}
  /\ r_requested \in RequestedFilters
  /\ r_generator_stop \in BOOLEAN
  /\ r_resource_types = NoFilter
  /\ r_pc = "init"
  /\ r_error = None
  /\ r_idx = 0
  /\ r_list_calls = 0
  /\ r_lookups = <<>>
  /\ r_yielded = <<>>

\* The caller evaluates stack.resources, or stack.resources(types) when it
\* wants a filter.  resources is a property: the attribute access calls the
\* getter with self alone, so resource_types takes its default, and the
\* generator object comes back before any of the body runs.  Applying the
\* call syntax to that generator object raises TypeError.
AccessResources ==
  /\ r_pc = "init"
  /\ r_resource_types' = NoFilter
  /\ IF r_requested.given
     THEN r_pc' = "raised" /\ r_error' = "TypeError"
     ELSE r_pc' = "created" /\ r_error' = None
  /\ UNCHANGED <<r_resources, r_dns, r_requested, r_generator_stop, r_idx,
                 r_list_calls, r_lookups, r_yielded>>
  /\ UNCHANGED <<pvars, svars>>

\* next() on the generator: the body runs up to its next yield.
PullResource ==
  /\ r_pc \in {"created", "suspended"}
  /\ LET run == RunResources(r_resources, r_dns, r_resource_types,
                             r_generator_stop, r_idx, r_lookups)
     IN /\ r_pc' = run.pc
        /\ r_error' = run.error
        /\ r_idx' = run.idx
        /\ r_lookups' = run.lookups
        /\ r_yielded' = r_yielded \o run.out
  /\ r_list_calls' = IF r_pc = "created" THEN r_list_calls + 1 ELSE r_list_calls
  /\ UNCHANGED <<r_resources, r_dns, r_requested, r_generator_stop, r_resource_types>>
  /\ UNCHANGED <<pvars, svars>>

NextRes == AccessResources \/ PullResource

\* ----------------------------------------------------- get_stacks (125-156)
status_filter ==
  <<"CREATE_IN_PROGRESS", "CREATE_FAILED", "CREATE_COMPLETE",
    "ROLLBACK_IN_PROGRESS", "ROLLBACK_FAILED", "ROLLBACK_COMPLETE",
    "DELETE_IN_PROGRESS", "DELETE_FAILED",
    "UPDATE_IN_PROGRESS", "UPDATE_COMPLETE_CLEANUP_IN_PROGRESS", "UPDATE_COMPLETE",
    "UPDATE_ROLLBACK_IN_PROGRESS", "UPDATE_ROLLBACK_FAILED",
    "UPDATE_ROLLBACK_COMPLETE_CLEANUP_IN_PROGRESS", "UPDATE_ROLLBACK_COMPLETE">>

\* kwargs = {'StackStatusFilter': status_filter}
InitialKwargs(all) ==
  [k \in {"StackStatusFilter"} |-> IF all THEN <<>> ELSE status_filter]

\* Mutant: the loop stops as soon as a cursor has been stored.
LoopContinues_FirstPageOnly(kwargs) == "NextToken" \notin DOMAIN kwargs

\* while 'NextToken' not in kwargs or kwargs['NextToken']
LoopContinues(kwargs) ==
  \/ "NextToken" \notin DOMAIN kwargs
  \/ kwargs["NextToken"] \notin {None, ""}

\* Mutant: the next call is built afresh and loses the status filter.
NextKwargs_DropFilter(kwargs, results) ==
  [k \in {"StackStatusFilter", "NextToken"} |->
     IF k = "NextToken" THEN DictGet(results, "NextToken") ELSE <<>>]

\* kwargs['NextToken'] = results.get('NextToken')
NextKwargs(kwargs, results) ==
  [k \in DOMAIN kwargs \cup {"NextToken"} |->
     IF k = "NextToken" THEN DictGet(results, "NextToken") ELSE kwargs[k]]

self_region == "eu-west-1"

\* ------------------------------------------------------------ the provider
ProviderStatuses == {"CREATE_COMPLETE", "DELETE_IN_PROGRESS", "DELETE_COMPLETE"}

\* A stack's status moves on at the provider while the listing runs.
StatusSuccessor(st) ==
  CASE st = "CREATE_COMPLETE" -> {"DELETE_IN_PROGRESS"}
    [] st = "DELETE_IN_PROGRESS" -> {"DELETE_COMPLETE"}
    [] OTHER -> {}

\* The cursor that leads to page p.
Cursor(p) == ToString(p)

\* The page a list_stacks call asks for.
PageOf(kwargs) ==
  IF "NextToken" \notin DOMAIN kwargs THEN 1
  ELSE CHOOSE p \in 1..(MaxPages + 1) : Cursor(p) = kwargs["NextToken"]

StackIdOf(n) == ToString(n)

RECURSIVE Summaries(_, _, _)
Summaries(page, status, filter) ==
  IF page = <<>> THEN <<>>
  ELSE LET n == Head(page)
           rest == Summaries(Tail(page), status, filter)
       IN IF filter = <<>> \/ status[n] \in Range(filter)
          THEN <<[StackId |-> StackIdOf(n)]>> \o rest
          ELSE rest

\* list_stacks(StackStatusFilter=..., NextToken=...): the stacks of the page
\* whose status passes the filter, and the cursor of the next page if any.
ListResponse(pages, status, last_cursor, kwargs) ==
  LET p == PageOf(kwargs)
      summaries == Summaries(pages[p], status, kwargs["StackStatusFilter"])
  IN IF p < Len(pages)
     THEN [StackSummaries |-> summaries, NextToken |-> Cursor(p + 1)]
     ELSE IF last_cursor = "absent"
     THEN [StackSummaries |-> summaries]
     ELSE [StackSummaries |-> summaries, NextToken |-> last_cursor]

\* The describe_stacks entry of stack n in its current status.
StackDetail(n, status) ==
  [RawStack(AllKeys, <<>>, <<>>) EXCEPT !["StackId"] = StackIdOf(n),
                                        !["StackStatus"] = status[n]]

\* What describe_stacks(StackName=stack_id) can answer: ProviderError, an
\* empty match list, or the entry of the stack as it is now.
DescribeOutcomes(stack_id, status) ==
  {[ok |-> FALSE, stacks |-> <<>>], [ok |-> TRUE, stacks |-> <<>>]}
  \cup {[ok |-> TRUE, stacks |-> <<StackDetail(n, status)>>] :
          n \in {m \in DOMAIN status : StackIdOf(m) = stack_id}}

\* ------------------------------------------------------ the provider calls
ListCall(kwargs, ok, results) ==
  [op |-> "list_stacks", kwargs |-> kwargs, name |-> None, ok |-> ok,
   results |-> results, stacks |-> <<>>]

DescribeCall(name, ok, stacks) ==
  [op |-> "describe_stacks", kwargs |-> <<>>, name |-> name, ok |-> ok,
   results |-> <<>>, stacks |-> stacks]

\* All ways to cut 1..MaxStacks into at most MaxPages consecutive pages,
\* empty pages included.
RECURSIVE Layouts(_, _)
Layouts(from, pagesLeft) ==
  IF pagesLeft = 1 THEN {<<[i \in 1..(MaxStacks - from + 1) |-> from + i - 1]>>}
  ELSE UNION {{<<[i \in 1..k |-> from + i - 1]>> \o rest :
                 rest \in Layouts(from + k, pagesLeft - 1)} :
              k \in 0..(MaxStacks - from + 1)}

IdleStacks ==
  /\ s_pages = <<>>
  /\ s_status = <<>>
  /\ s_last_cursor = "absent"
  /\ s_all = FALSE
  /\ s_pc = "idle"
  /\ s_error = None
  /\ s_kwargs = <<>>
  /\ s_results = <<>>
  /\ s_idx = 0
  /\ s_pulls = 0
  /\ s_extra = 0
  /\ s_calls = <<>>
  /\ s_yielded = <<>>

InitStacks ==
  /\ s_pages \in UNION {Layouts(1, n) : n \in 1..MaxPages}
  /\ s_status \in [1..MaxStacks -> ProviderStatuses]
  /\ s_last_cursor \in {"absent", ""}
  /\ s_all \in BOOLEAN
  /\ s_pc = "created"
  /\ s_error = None
  /\ s_kwargs = <<>>
  /\ s_results = <<>>
  /\ s_idx = 0
  /\ s_pulls = 0
  /\ s_extra = 0
  /\ s_calls = <<>>
  /\ s_yielded = <<>>

\* The provider moves a stack on; nothing in the module sees it happen.  Only
\* the order of a change relative to the provider calls matters, so changes
\* are taken while the generator is about to issue a call.
ProviderChange ==
  /\ s_pc \in {"at_list", "at_for"}
  /\ \E n \in DOMAIN s_status : \E st \in StatusSuccessor(s_status[n]) :
       s_status' = [s_status EXCEPT ![n] = st]
  /\ UNCHANGED <<s_pages, s_last_cursor, s_all, s_pc, s_error, s_kwargs, s_results,
                 s_idx, s_pulls, s_extra, s_calls, s_yielded>>
  /\ UNCHANGED <<pvars, rvars>>

\* The first next(): the body starts, builds status_filter and kwargs and
\* enters the while loop ('NextToken' is not in kwargs).
PullFirst ==
  /\ s_pc = "created"
  /\ s_kwargs' = InitialKwargs(s_all)
  /\ s_pc' = IF LoopContinues(InitialKwargs(s_all)) THEN "at_list" ELSE "done"
  /\ s_pulls' = s_pulls + 1
  /\ UNCHANGED <<s_pages, s_status, s_last_cursor, s_all, s_error, s_results,
                 s_idx, s_extra, s_calls, s_yielded>>
  /\ UNCHANGED <<pvars, rvars>>

\* A later next(): the body resumes after the yield, in the for loop.
PullNext ==
  /\ s_pc = "suspended"
  /\ s_pc' = "at_for"
  /\ s_pulls' = s_pulls + 1
  /\ UNCHANGED <<s_pages, s_status, s_last_cursor, s_all, s_error, s_kwargs,
                 s_results, s_idx, s_extra, s_calls, s_yielded>>
  /\ UNCHANGED <<pvars, rvars>>

\* results = client.list_stacks(**kwargs): the provider answers or fails.
ListStacks ==
  /\ s_pc = "at_list"
  /\ \/ /\ s_calls' = Append(s_calls, ListCall(s_kwargs, FALSE, <<>>))
        /\ s_pc' = "raised"
        /\ s_error' = "ProviderError"
        /\ UNCHANGED <<s_results, s_idx>>
     \/ LET results == ListResponse(s_pages, s_status, s_last_cursor, s_kwargs)
        IN /\ s_calls' = Append(s_calls, ListCall(s_kwargs, TRUE, results))
           /\ s_results' = results
           /\ s_idx' = 0
           /\ s_pc' = "at_for"
           /\ UNCHANGED s_error
  /\ UNCHANGED <<s_pages, s_status, s_last_cursor, s_all, s_kwargs, s_pulls,
                 s_extra, s_yielded>>
  /\ UNCHANGED <<pvars, rvars>>

\* The for loop takes the next summary: get_by_stack_name(stack_id) is
\* called and its record yielded, or its failure leaves the generator.
DescribeAndYield ==
  /\ s_pc = "at_for"
  /\ s_idx < Len(s_results["StackSummaries"])
  /\ LET stack_id == s_results["StackSummaries"][s_idx + 1]["StackId"]
     IN \E answer \in DescribeOutcomes(stack_id, s_status) :
          /\ s_calls' = Append(s_calls, DescribeCall(stack_id, answer.ok, answer.stacks))
          /\ s_idx' = s_idx + 1
          /\ IF ~answer.ok
             THEN s_pc' = "raised" /\ s_error' = "ProviderError" /\ UNCHANGED s_yielded
             ELSE LET got == get_by_stack_name(answer.stacks, self_region)
                  IN IF got.ok
                     THEN /\ s_yielded' = Append(s_yielded, got.value)
                          /\ s_pc' = "suspended"
                          /\ UNCHANGED s_error
                     ELSE /\ s_pc' = "raised"
                          /\ s_error' = got.error
                          /\ UNCHANGED s_yielded
  /\ UNCHANGED <<s_pages, s_status, s_last_cursor, s_all, s_kwargs, s_results,
                 s_pulls, s_extra>>
  /\ UNCHANGED <<pvars, rvars>>

\* The for loop is exhausted: the cursor is stored and the while condition
\* decides between another list call and the end of the generator.
AdvanceCursor ==
  /\ s_pc = "at_for"
  /\ s_idx = Len(s_results["StackSummaries"])
  /\ s_kwargs' = NextKwargs(s_kwargs, s_results)
  /\ s_pc' = IF LoopContinues(NextKwargs(s_kwargs, s_results)) THEN "at_list" ELSE "done"
  /\ UNCHANGED <<s_pages, s_status, s_last_cursor, s_all, s_error, s_results,
                 s_idx, s_pulls, s_extra, s_calls, s_yielded>>
  /\ UNCHANGED <<pvars, rvars>>

\* next() on a generator that has returned or raised: StopIteration, and
\* none of the body runs.
PullFinished ==
  /\ s_pc \in {"done", "raised"}
  /\ s_extra = 0
  /\ s_extra' = s_extra + 1
  /\ UNCHANGED <<s_pages, s_status, s_last_cursor, s_all, s_pc, s_error, s_kwargs,
                 s_results, s_idx, s_pulls, s_calls, s_yielded>>
  /\ UNCHANGED <<pvars, rvars>>

GeneratorStep == ListStacks \/ DescribeAndYield \/ AdvanceCursor

NextStacks ==
  ProviderChange \/ PullFirst \/ PullNext \/ PullFinished \/ GeneratorStep

\* =================================================================== claims
\* ---- from_boto_dict and get_by_stack_name (SpecParse)

\* The entry a direct from_boto_dict call was given.
ParsedEntry == p_response[p_arg]

DistinctKeys(entries, key) ==
  \A i, j \in 1..Len(entries) : entries[i][key] = entries[j][key] => i = j

\* A valid describe entry: the keys the parser insists on are there and no
\* parameter key or tag key occurs twice.
ValidRaw(raw) ==
  /\ {"StackId", "StackName", "CreationTime", "StackStatus", "DisableRollback",
      "NotificationARNs", "Tags"} \subseteq DOMAIN raw
  /\ "Parameters" \in DOMAIN raw => DistinctKeys(raw["Parameters"], "ParameterKey")
  /\ DistinctKeys(raw["Tags"], "Key")

Flagged(p) == "UsePreviousValue" \in DOMAIN p /\ p["UsePreviousValue"] = TRUE

\* The record written back in the provider's shape.
Reserialised(rec) ==
  [k \in AllKeys |->
     CASE k = "StackId" -> rec.stack_id
       [] k = "StackName" -> rec.name
       [] k = "Description" -> rec.description
       [] k = "Parameters" ->
            [i \in 1..Len(rec.parameters) |->
               [ParameterKey |-> rec.parameters[i][1],
                ParameterValue |-> rec.parameters[i][2]]]
       [] k = "CreationTime" -> rec.creation_time
       [] k = "LastUpdatedTime" -> rec.last_updated_time
       [] k = "StackStatus" -> rec.status
       [] k = "StackStatusReason" -> rec.stack_status_reason
       [] k = "DisableRollback" -> rec.disable_rollback
       [] k = "NotificationARNs" -> rec.notification_arns
       [] k = "TimeoutInMinutes" -> rec.timeout_in_minutes
       [] k = "Capabilities" -> rec.capabilities
       [] k = "Outputs" -> rec.outputs
       [] k = "Tags" ->
            [i \in 1..Len(rec.tags) |->
               [Key |-> rec.tags[i][1], Value |-> rec.tags[i][2]]]]

\* The raw entry with absent keys written as None and the flagged parameters
\* (and the flag itself) left out.
Unflagged(ps) ==
  LET kept == SelectSeq(ps, LAMBDA p : ~Flagged(p))
  IN [i \in 1..Len(kept) |->
        [ParameterKey |-> kept[i]["ParameterKey"],
         ParameterValue |-> kept[i]["ParameterValue"]]]

ExpectedRoundTrip(raw) ==
  [k \in AllKeys |->
     IF k = "Parameters"
     THEN (IF k \in DOMAIN raw THEN Unflagged(raw[k]) ELSE <<>>)
     ELSE IF k \in DOMAIN raw THEN raw[k] ELSE None]

\* C3: get_by_stack_name fails with IndexError (the NotFound of the spec) and
\* returns no record on zero matches; otherwise its outcome is the parse of
\* the first match, whatever follows it: with one or more matches the record
\* carries the identity of the first element.
C3_FirstMatch ==
  p_stage = "fetched" =>
    /\ Len(p_response) = 0 => p_result = Raised("IndexError")
    /\ Len(p_response) >= 1 =>
         /\ p_result = from_boto_dict(p_response[1], p_region)
         /\ p_result.ok =>
              /\ p_result.value.stack_id = p_response[1]["StackId"]
              /\ p_result.value.name = p_response[1]["StackName"]
              /\ p_result.value.region = p_region

\* Two valid matches with different identities; the first one was returned.
C3_Witness ==
  /\ p_stage = "fetched"
  /\ Len(p_response) = 2
  /\ ValidRaw(p_response[1]) /\ ValidRaw(p_response[2])
  /\ p_response[1]["StackId"] # p_response[2]["StackId"]
  /\ p_result.ok
  /\ p_result.value.stack_id = p_response[1]["StackId"]

\* C4: for a valid entry, from_boto_dict succeeds and writing the record back
\* gives every field of the entry unchanged (absent optional keys as None),
\* tags in order, and as parameters exactly the unflagged ones, once each, in
\* response order, and no entry for a flagged one.
C4_RoundTrip ==
  (p_stage = "parsed" /\ ValidRaw(ParsedEntry)) =>
    /\ p_result.ok
    /\ Reserialised(p_result.value) = ExpectedRoundTrip(ParsedEntry)
    /\ "Parameters" \in DOMAIN ParsedEntry =>
         \A i \in 1..Len(ParsedEntry["Parameters"]) :
           LET p == ParsedEntry["Parameters"][i]
               n == Cardinality({j \in 1..Len(p_result.value.parameters) :
                                   p_result.value.parameters[j][1] = p["ParameterKey"]})
           IN IF Flagged(p) THEN n = 0 ELSE n = 1

\* A valid entry with a flagged and an unflagged parameter was parsed.
C4_Witness ==
  /\ p_stage = "parsed"
  /\ ValidRaw(ParsedEntry)
  /\ "Parameters" \in DOMAIN ParsedEntry
  /\ Len(ParsedEntry["Parameters"]) = 2
  /\ Flagged(ParsedEntry["Parameters"][1])
  /\ ~Flagged(ParsedEntry["Parameters"][2])
  /\ p_result.ok
  /\ Len(p_result.value.parameters) = 1

\* The keys the describe schema of the spec does not mark optional.
SchemaRequiredKeys ==
  {"StackId", "StackName", "Parameters", "CreationTime", "StackStatus",
   "DisableRollback", "NotificationARNs", "Tags"}

SchemaOptionalKeys ==
  {"Description", "LastUpdatedTime", "StackStatusReason", "TimeoutInMinutes",
   "Capabilities", "Outputs"}

\* C5 as stated: from_boto_dict fails with KeyError (MissingField), building
\* no record, exactly when a key the schema does not mark optional is absent
\* (Parameters among them).
C5_AsStated ==
  p_stage = "parsed" =>
    (p_result = Raised("KeyError")
       <=> ~(SchemaRequiredKeys \subseteq DOMAIN ParsedEntry))

\* C5 amended: from_boto_dict fails with KeyError, building no record,
\* exactly when one of StackId, StackName, CreationTime, StackStatus,
\* DisableRollback, NotificationARNs, Tags is absent; an absent Parameters
\* gives an empty parameters mapping and an absent optional key gives None.
C5_RequiredKeys ==
  p_stage = "parsed" =>
    /\ p_result = Raised("KeyError")
         <=> ~((SchemaRequiredKeys \ {"Parameters"}) \subseteq DOMAIN ParsedEntry)
    /\ p_result.ok =>
         /\ \A k \in SchemaOptionalKeys \ DOMAIN ParsedEntry :
              Reserialised(p_result.value)[k] = None
         /\ \A k \in (SchemaRequiredKeys \ {"Parameters", "Tags"}) :
              Reserialised(p_result.value)[k] = ParsedEntry[k]
         /\ "Parameters" \notin DOMAIN ParsedEntry => p_result.value.parameters = <<>>

\* An entry without Parameters was parsed into a record with no parameters.
C5_Witness ==
  /\ p_stage = "parsed"
  /\ "Parameters" \notin DOMAIN ParsedEntry
  /\ p_result.ok
  /\ p_result.value.parameters = <<>>

\* ---- resources (SpecRes)

\* The physical identifiers of the record-set resources, in list order.
RECURSIVE RecordSetNames(_)
RecordSetNames(resources) ==
  IF resources = <<>> THEN <<>>
  ELSE (IF Head(resources)["ResourceType"] = route53_record_set
        THEN <<Head(resources)["PhysicalResourceId"]>> ELSE <<>>)
       \o RecordSetNames(Tail(resources))

\* C6: when the caller asks for a type filter, the enumeration runs with that
\* filter: it is a sequence the caller can consume, no resource of a type
\* outside the filter is looked up, and with only the EC2 instance type
\* allowed it ends having yielded nothing and looked up nothing.
C6_FilterApplied ==
  (r_requested.given /\ r_pc # "init") =>
    /\ r_resource_types = r_requested
    /\ r_error # "TypeError"
    /\ \A i \in 1..Len(r_lookups) :
         \E j \in 1..Len(r_resources) :
           /\ r_resources[j]["PhysicalResourceId"] = r_lookups[i]
           /\ r_resources[j]["ResourceType"] \in r_requested.types
    /\ r_requested.types = {ec2_instance} => (r_lookups = <<>> /\ r_yielded = <<>>)

\* C7: an unfiltered enumeration that has ended has looked up every
\* record-set resource once, in list order, and nothing else, and has
\* yielded exactly the first record of each of those lookups, in order.
C7_OnePerRecordSet ==
  (~r_requested.given /\ r_pc = "done") =>
    /\ r_lookups = RecordSetNames(r_resources)
    /\ Len(r_yielded) = Len(r_lookups)
    /\ \A i \in 1..Len(r_yielded) : r_yielded[i] = r_dns[r_lookups[i]][1]

\* C8: once a lookup has produced no record, the caller has been given a
\* failure: the enumeration has not ended as if exhausted, has handed out
\* nothing since, and has looked up nothing since.
C8_EmptyLookupSurfaces ==
  \A i \in 1..Len(r_lookups) :
    r_dns[r_lookups[i]] = <<>> =>
      /\ r_pc = "raised"
      /\ r_error # None
      /\ i = Len(r_lookups)
      /\ Len(r_yielded) = i - 1

\* ---- get_stacks (SpecStacks, FairStacks)

ListCalls == SelectSeq(s_calls, LAMBDA c : c.op = "list_stacks")
DescribeCalls == SelectSeq(s_calls, LAMBDA c : c.op = "describe_stacks")

\* The stack ids of the summaries the first n list calls returned, in order.
RECURSIVE ListedBy(_)
ListedBy(n) ==
  IF n = 0 THEN <<>>
  ELSE ListedBy(n - 1) \o
       (IF ListCalls[n].ok
        THEN [i \in 1..Len(ListCalls[n].results["StackSummaries"]) |->
                ListCalls[n].results["StackSummaries"][i]["StackId"]]
        ELSE <<>>)

Listed == ListedBy(Len(ListCalls))

\* C1: without all, no record handed to the caller has status
\* DELETE_COMPLETE, whatever the provider does between the list call and
\* the describe call.
C1_NeverYieldsDeleted ==
  ~s_all => \A i \in 1..Len(s_yielded) : s_yielded[i].status # "DELETE_COMPLETE"

\* The sequence was consumed to its normal end.
C2_Exact ==
  s_pc = "done" =>
    /\ Len(ListCalls) = Len(s_pages)
    /\ \A p \in 1..Len(ListCalls) : ListCalls[p].ok /\ PageOf(ListCalls[p].kwargs) = p
    /\ Len(DescribeCalls) = Len(Listed)
    /\ Len(s_yielded) = Len(Listed)
    /\ \A i \in 1..Len(Listed) :
         /\ DescribeCalls[i].name = Listed[i]
         /\ s_yielded[i].stack_id = Listed[i]
         /\ s_yielded[i] = from_boto_dict(DescribeCalls[i].stacks[1], self_region).value

\* C2: a caller that keeps pulling reaches the end of the sequence (or a
\* failure), and at the normal end the provider has been asked for each of
\* the P pages once, in order, and for the detail of each summary once, in
\* order, and the records handed out are those details, in order.
C2_PaginationExact ==
  [](C2_Exact) /\ <>(s_pc \in {"done", "raised"})

\* Three pages, a summary on the first and on the last, consumed to the end.
C2_Witness ==
  /\ s_pc = "done"
  /\ Len(s_pages) = 3
  /\ Len(ListCalls) = 3
  /\ Len(ListCalls[1].results["StackSummaries"]) >= 1
  /\ Len(ListCalls[3].results["StackSummaries"]) >= 1
  /\ Len(s_yielded) = 2

\* A provider call that failed: it raised, or it was a describe call that
\* matched nothing.
Failed(c) == ~c.ok \/ (c.op = "describe_stacks" /\ c.stacks = <<>>)

SameCall(c, d) == c.op = d.op /\ c.kwargs = d.kwargs /\ c.name = d.name

C9_Surfaced ==
  /\ \A i \in 1..Len(s_calls) :
       Failed(s_calls[i]) =>
         /\ s_pc = "raised"
         /\ i = Len(s_calls)
         /\ \A j \in 1..Len(s_calls) : SameCall(s_calls[j], s_calls[i]) => j = i
         /\ s_error = IF s_calls[i].ok THEN "IndexError" ELSE "ProviderError"
  /\ s_pc = "raised" =>
       /\ s_calls # <<>> /\ Failed(s_calls[Len(s_calls)])
       /\ s_pulls = Len(s_yielded) + 1
       /\ Len(s_yielded) <= Len(Listed)
       /\ \A i \in 1..Len(s_yielded) :
            /\ s_yielded[i].stack_id = Listed[i]
            /\ s_yielded[i] = from_boto_dict(DescribeCalls[i].stacks[1], self_region).value
       /\ IF s_calls[Len(s_calls)].op = "list_stacks"
          THEN Len(s_yielded) = Len(Listed)
          ELSE /\ Len(DescribeCalls) = Len(s_yielded) + 1
               /\ DescribeCalls[Len(DescribeCalls)].name = Listed[Len(s_yielded) + 1]

\* C9: a failed provider call (a list or describe call that raises, or a
\* describe call that matches nothing) is the last call in the log, occurs in
\* it once, and has left the generator raised with that failure at the pull
\* that issued it; the records handed out are the details of the summaries
\* before the failing one, in order; and once the generator has raised, no
\* further call is issued and nothing more is handed out, however often the
\* caller pulls.
C9_NoRetry ==
  /\ [](C9_Surfaced)
  /\ [][s_pc = "raised" =>
          (s_pc' = "raised" /\ s_calls' = s_calls /\ s_yielded' = s_yielded
           /\ s_error' = s_error)]_vars

\* The second summary's describe call matched nothing after the first record
\* was handed out, and the caller pulled again afterwards.
C9_Witness ==
  /\ s_pc = "raised"
  /\ s_error = "IndexError"
  /\ Len(s_yielded) = 1
  /\ Len(DescribeCalls) = 2
  /\ s_extra = 1

\* C10: nothing is called before the first pull; there are never more
\* describe calls than pulls; every list call after the first carries the
\* cursor the previous one returned and the status filter of the first, and
\* is issued only once every summary of the earlier pages has been handed
\* out and the caller has pulled again; and while the caller holds k records
\* and has not pulled again, exactly k describe calls have been issued and
\* the list calls are those up to the page the k-th summary came from.
C10_PullBased ==
  /\ s_pulls = 0 => s_calls = <<>>
  /\ Len(DescribeCalls) <= s_pulls
  /\ Len(ListCalls) >= 1 =>
       /\ "NextToken" \notin DOMAIN ListCalls[1].kwargs
       /\ ListCalls[1].kwargs["StackStatusFilter"] =
            (IF s_all THEN <<>> ELSE status_filter)
  /\ \A p \in 2..Len(ListCalls) :
       /\ "NextToken" \in DOMAIN ListCalls[p - 1].results
       /\ ListCalls[p].kwargs["NextToken"] = ListCalls[p - 1].results["NextToken"]
       /\ ListCalls[p].kwargs["StackStatusFilter"] =
            ListCalls[1].kwargs["StackStatusFilter"]
       /\ Len(s_yielded) >= Len(ListedBy(p - 1))
       /\ s_pulls > Len(ListedBy(p - 1))
  /\ s_pc = "suspended" =>
       /\ s_pulls = Len(s_yielded)
       /\ Len(DescribeCalls) = Len(s_yielded)
       /\ Len(ListedBy(Len(ListCalls) - 1)) < Len(s_yielded)
       /\ Len(s_yielded) <= Len(Listed)

\* The caller holds the one record of page 1 while page 2 exists and has not
\* been asked for.
C10_Witness ==
  /\ s_pc = "suspended"
  /\ Len(s_pages) >= 2
  /\ Len(s_yielded) = 1
  /\ Len(ListCalls) = 1
  /\ s_idx = Len(s_results["StackSummaries"])
  /\ ~s_all

ParseInit == InitParse /\ IdleRes /\ IdleStacks

SpecParse == ParseInit /\ [][NextParse]_vars

ResInit == InitRes /\ IdleParse /\ IdleStacks

SpecRes == ResInit /\ [][NextRes]_vars

StacksInit == InitStacks /\ IdleParse /\ IdleRes

SpecStacks == StacksInit /\ [][NextStacks]_vars

\* The caller keeps pulling and the generator keeps running; the provider is
\* free to change or not.
FairStacks ==
  SpecStacks /\ WF_vars(PullFirst \/ PullNext) /\ WF_vars(GeneratorStep)

====
